---- MODULE Spec2Model ----
(***************************************************************************)
(* Model of the Visitor component (client/src/pages/Visitor.jsx, WebRTC    *)
(* revision): the lifecycle status, the pcRef/dcRef handles, every         *)
(* suspension point of startConversation, the data-channel open handler    *)
(* and stopConversation, together with the browser objects they drive      *)
(* (RTCPeerConnection, RTCDataChannel, fetch, getUserMedia, FileReader).   *)
(*                                                                         *)
(* A null reference is written 0; peer connections and data channels are   *)
(* numbered by the startConversation invocation that created them.        *)
(*                                                                         *)
(* The second part models the server (server/index.js): the paintings      *)
(* file under POST and PUT /api/paintings, and GET /api/session, which     *)
(* looks the painting up to build the session's instructions.             *)
(***************************************************************************)
EXTENDS Integers, Sequences, FiniteSets, TLC

\* ---------------------------------------------------------------- bounds
MaxStarts == 2      \* invocations of startConversation that may overlap
MaxSessions == 1    \* invocations of startConversation otherwise
MaxStops == 2       \* invocations of stopConversation
MaxOverlapStops == 1  \* the same, in the runs with overlapping invocations
MaxPaintings == 2   \* paintings the server stores
MaxPending == 1     \* update requests in flight together
MaxDrops == 1       \* transport drops reported by a peer connection
MaxMsgs == 1        \* messages delivered on the data channels
MaxChanges == 1     \* changes of the painting identifier while mounted

Invs == 1..MaxStarts

\* ------------------------------------------------------------ the inputs
\* painting === null (useState(null))
NoPainting == [id |-> "", slug |-> "", imageUrl |-> "", systemInstructions |-> ""]

\* the records the resolver can return: with slug and image, with neither
Paintings ==
  { [id |-> "p1", slug |-> "mona", imageUrl |-> "/uploads/1.png",
     systemInstructions |-> "instructions p1"],
    [id |-> "p2", slug |-> "", imageUrl |-> "",
     systemInstructions |-> "instructions p2"] }

\* what the component can be given: the slugOverride prop, an id or a slug
\* in the URL, or nothing
Routes == {"override", "id", "slug", "none"}

\* what e.data of an inbound data-channel message can be: text that is not
\* JSON, or JSON whose type member is absent, a number, an array holding one
\* string, or a string.  A string is kept as its dot-separated segments.
NotJson == [json |-> FALSE, tag |-> "", segs |-> <<>>]
Messages ==
  {NotJson} \cup
  [json : {TRUE}, tag : {"absent"}, segs : {<<>>}] \cup
  [json : {TRUE}, tag : {"number"}, segs : {<<"5">>}] \cup
  [json : {TRUE}, tag : {"array", "string"},
   segs : {<<"session", "created">>, <<"response", "audio", "delta">>}] \cup
  [json : {TRUE}, tag : {"string"},
   segs : {<<"response", "audio_transcript", "delta">>}]

TokenOutcomes == {"ok", "unreachable", "nosecret"}
\* what the POST of the offer can come back with: no response at all (fetch
\* rejects), or a response with its ok flag, its status and its body text
NoResponse == [reached |-> FALSE, ok |-> FALSE, status |-> "", body |-> ""]
SdpResponses ==
  {[reached |-> TRUE, ok |-> TRUE, status |-> "201", body |-> "v=0 answer"],
   [reached |-> TRUE, ok |-> FALSE, status |-> "401", body |-> "invalid key"],
   [reached |-> TRUE, ok |-> FALSE, status |-> "500", body |-> ""]}
SdpOutcomes == SdpResponses \cup {NoResponse}
ImageOutcomes == {"png", "jpeg", "fetchfail", "readfail"}

VARIABLES
  status,     \* useState('loading')
  errorMsg,   \* useState('')
  painting,   \* useState(null)
  logs,       \* useState([])
  pcRef,      \* useRef(null): 0 or the number of a peer connection
  dcRef,      \* useRef(null): 0 or the number of a data channel
  resolver,   \* the mount effect: "init", "pending" (fetch in flight), "done"
  inv,        \* the invocations of startConversation and where each is suspended
  pcs,        \* the RTCPeerConnection objects
  dcs,        \* the RTCDataChannel objects
  nStarts,    \* startConversation invocations so far
  stops,      \* the stopConversation invocations: what each found
  nDrops,     \* transport drops so far
  byButtons,  \* the two commands are invoked through the rendered buttons
              \* (TRUE) or called directly in any state (FALSE); fixed by Init
  logged,     \* the run keeps the contents of logs; fixed by Init
  limit,      \* how many invocations of startConversation (starts) and of
              \* stopConversation (stops) the run makes; fixed by Init
  route,      \* what the component is given, one of Routes: the slugOverride
              \* prop, an id or a slug in the URL, or nothing
  mounted,    \* the component is mounted
  nav,        \* the identifier changes: the painting the identifier names now
              \* (target, "" while it never changed) and the requests made
              \* for earlier identifiers (earlier)
  store,      \* the server's data file: the array of paintings
  pending,    \* the update requests suspended at their await
  reply       \* the response the server sent last

cvars == <<status, errorMsg, painting, logs, pcRef, dcRef, resolver, inv, pcs,
           dcs, nStarts, stops, nDrops, byButtons, logged, limit, route, mounted, nav>>
vars == <<status, errorMsg, painting, logs, pcRef, dcRef, resolver, inv, pcs,
          dcs, nStarts, stops, nDrops, store, pending, reply, byButtons, logged, limit, route, mounted, nav>>

\* -------------------------------------------------------------- helpers
\* (variant: the new entry is put in front of the earlier ones)
addLogNewestFirst(l, msg) == IF logged THEN <<msg>> \o l ELSE l

\* addLog: setLogs(prev => [...prev, msg]); an entry is written without its
\* timestamp prefix and without the tick some messages start with.
\* Nothing in the component reads logs: the runs fixed with logged = FALSE
\* leave its contents out of the state.
addLog(l, msg) == IF logged THEN Append(l, msg) ELSE l

NoInv == [pos |-> "none", painting |-> NoPainting, statusAtCall |-> "",
          tokenReq |-> FALSE, key |-> "", keyUses |-> 0,
          sdp |-> NoResponse, answer |-> ""]
NoPc == [st |-> "none", conn |-> "new", ice |-> "new", handlers |-> {},
         remote |-> FALSE, answer |-> "", mic |-> FALSE, audio |-> "none"]
NoDc == [st |-> "none", sent |-> <<>>, rejected |-> <<>>, handler |-> "idle",
         image |-> "", received |-> 0]

\* pc.close(): the connection is closed, and so are its data channels
ClosePc(P, p) ==
  [P EXCEPT ![p].st = "closed", ![p].conn = "closed", ![p].ice = "closed"]
CloseDc(D, d) == IF D[d].st = "none" THEN D ELSE [D EXCEPT ![d].st = "closed"]

\* dc.send(JSON.stringify(ev)): RTCDataChannel.send throws InvalidStateError
\* unless readyState is 'open'; a call that threw is kept in rejected
DcSendOk(dc) == dc.st = "open"
DcSend(dc, ev) ==
  IF DcSendOk(dc) THEN [dc EXCEPT !.sent = Append(@, ev)]
  ELSE [dc EXCEPT !.rejected = Append(@, ev)]

\* ------------------------------------------------------------- the mount
Mounted ==
  /\ status = "loading"
  /\ errorMsg = ""
  /\ painting = NoPainting
  /\ logs = <<>>
  /\ pcRef = 0
  /\ dcRef = 0
  /\ resolver = "init"
  /\ inv = [i \in Invs |-> NoInv]
  /\ pcs = [i \in Invs |-> NoPc]
  /\ dcs = [i \in Invs |-> NoDc]
  /\ nStarts = 0
  /\ stops = <<>>
  /\ nDrops = 0
  /\ route \in Routes
  /\ mounted = TRUE
  /\ nav = [target |-> "", changes |-> 0, earlier |-> <<>>]

\* useEffect: with slugOverride, or with an id or a slug in the URL, the
\* effect calls fetchPainting; with none of them it sets the error itself
UseEffect ==
  /\ resolver = "init"
  /\ IF route # "none"
     THEN /\ resolver' = "pending"
          /\ UNCHANGED <<status, errorMsg>>
     ELSE /\ resolver' = "done"
          /\ status' = "error"
          /\ errorMsg' = "No painting ID or Slug found in URL."
  /\ UNCHANGED <<painting, logs, pcRef, dcRef, inv, pcs, dcs, nStarts, stops, nDrops, store, pending, reply, byButtons, logged, limit, route, mounted, nav>>

\* the effect returns its cleanup function only at its last line: the
\* slugOverride branch and the no-identifier branch return nothing
HasCleanup == route \in {"id", "slug"}

\* the component is unmounted: React runs the cleanup the effect returned,
\* () => { if (pcRef.current) pcRef.current.close() }
Unmount ==
  /\ mounted
  /\ resolver # "init"
  /\ mounted' = FALSE
  /\ IF HasCleanup /\ pcRef # 0
     THEN /\ pcs' = ClosePc(pcs, pcRef)
          /\ dcs' = CloseDc(dcs, pcRef)
     ELSE UNCHANGED <<pcs, dcs>>
  /\ UNCHANGED <<status, errorMsg, painting, logs, pcRef, dcRef, resolver, inv, nStarts, stops, nDrops, store, pending, reply, byButtons, logged, limit, route, nav>>

\* fetchPainting: .then(data => { setPainting(data); setStatus('ready') }).
\* A request of /api/paintings/slug/<slug> is answered with a painting that
\* has that slug, a request of /api/paintings/<id> with any stored painting.
FetchPaintingOk(p) ==
  /\ resolver = "pending"
  /\ route \in {"override", "slug"} => p.slug # ""
  /\ nav.target # "" => p.id = nav.target
  /\ resolver' = "done"
  /\ painting' = p
  /\ status' = "ready"
  /\ UNCHANGED <<errorMsg, logs, pcRef, dcRef, inv, pcs, dcs, nStarts, stops, nDrops, store, pending, reply, byButtons, logged, limit, route, mounted, nav>>

\* what the rejection carries: the message thrown for a response that is
\* not ok, or the message of the TypeError of a fetch that got no response
ResolveFailures == {"Painting not found", "Failed to fetch"}

\* (variant: a failed resolution leaves the status as it is)
FetchPaintingFailKeepsLoading(msg) ==
  /\ resolver = "pending"
  /\ resolver' = "done"
  /\ status' = status
  /\ errorMsg' = msg
  /\ UNCHANGED <<painting, logs, pcRef, dcRef, inv, pcs, dcs, nStarts, stops, nDrops, store, pending, reply, byButtons, logged, limit, route, mounted, nav>>

\* fetchPainting: .catch(err => { setStatus('error'); setErrorMsg(err.message) })
FetchPaintingFail(msg) ==
  /\ resolver = "pending"
  /\ resolver' = "done"
  /\ status' = "error"
  /\ errorMsg' = msg
  /\ UNCHANGED <<painting, logs, pcRef, dcRef, inv, pcs, dcs, nStarts, stops, nDrops, store, pending, reply, byButtons, logged, limit, route, mounted, nav>>

\* ------------------------------------------------ identifier changes
\* the painting that has the id b
PaintingOf(b) == CHOOSE p \in Paintings : p.id = b

\* useEffect(..., [paintingId, paintingSlug, slugOverride]): the identifier
\* now names painting b. React runs the cleanup of the previous run (with an
\* id or a slug in the URL it closes the peer connection pcRef holds; the
\* slugOverride run returned none) and then the effect again, which calls
\* fetchPainting for the new identifier. Nothing cancels the request of the
\* previous run: while unanswered it stays in flight. The effect sets
\* neither the status nor the painting.
ChangeIdentifier(a, b) ==
  /\ mounted
  /\ route # "none"
  /\ resolver # "init"
  /\ nav.changes < MaxChanges
  /\ a # b
  /\ nav.target # "" => a = nav.target
  /\ nav.target = "" /\ painting # NoPainting => a = painting.id
  /\ nav' = [target |-> b,
             changes |-> nav.changes + 1,
             earlier |-> IF resolver = "pending"
                         THEN Append(nav.earlier, [for |-> a, st |-> "pending"])
                         ELSE nav.earlier]
  /\ resolver' = "pending"
  /\ IF HasCleanup /\ pcRef # 0
     THEN /\ pcs' = ClosePc(pcs, pcRef)
          /\ dcs' = CloseDc(dcs, pcRef)
     ELSE UNCHANGED <<pcs, dcs>>
  /\ UNCHANGED <<status, errorMsg, painting, logs, pcRef, dcRef, inv, nStarts, stops, nDrops, store, pending, reply, byButtons, logged, limit, route, mounted>>

\* fetchPainting's .then handlers, run for the answer to the request of an
\* earlier identifier: the same setPainting(data); setStatus('ready')
EarlierFetchOk(k) ==
  /\ k \in 1..Len(nav.earlier)
  /\ nav.earlier[k].st = "pending"
  /\ nav' = [nav EXCEPT !.earlier[k].st = "done"]
  /\ painting' = PaintingOf(nav.earlier[k].for)
  /\ status' = "ready"
  /\ UNCHANGED <<errorMsg, logs, pcRef, dcRef, resolver, inv, pcs, dcs, nStarts, stops, nDrops, store, pending, reply, byButtons, logged, limit, route, mounted>>

\* fetchPainting's .catch handler, run for the request of an earlier
\* identifier
EarlierFetchFail(k, msg) ==
  /\ k \in 1..Len(nav.earlier)
  /\ nav.earlier[k].st = "pending"
  /\ nav' = [nav EXCEPT !.earlier[k].st = "done"]
  /\ status' = "error"
  /\ errorMsg' = msg
  /\ UNCHANGED <<painting, logs, pcRef, dcRef, resolver, inv, pcs, dcs, nStarts, stops, nDrops, store, pending, reply, byButtons, logged, limit, route, mounted>>

\* ------------------------------------------------- startConversation
\* {status === 'ready' && <button onClick={startConversation}>}
StartButton == status = "ready"

\* {status === 'connected' && ... <button onClick={stopConversation}>}
StopButton == status = "connected"

\* (variant: the catch block sets the status and leaves errorMsg alone)
CatchKeepsMessage(i, l, msg) ==
  /\ logs' = addLog(l, "ERROR: " \o msg)
  /\ status' = "error"
  /\ UNCHANGED errorMsg
  /\ inv' = [inv EXCEPT ![i].pos = "failed"]

\* the catch block of startConversation, entered by invocation i with the
\* log l built so far
Catch(i, l, msg) ==
  /\ logs' = addLog(l, "ERROR: " \o msg)
  /\ status' = "error"
  /\ errorMsg' = msg
  /\ inv' = [inv EXCEPT ![i].pos = "failed"]

\* the synchronous head of startConversation, up to the credential fetch.
\* The function tests nothing before it sets the status.
StartConversation ==
  /\ mounted
  /\ nStarts < limit.starts
  /\ byButtons => StartButton
  /\ LET i == nStarts + 1
         l == addLog(logs, "Starting WebRTC connection...")
         me == [NoInv EXCEPT !.painting = painting, !.statusAtCall = status]
     IN /\ nStarts' = i
        /\ IF painting = NoPainting
           THEN \* painting.slug on null throws inside the try block
                /\ logs' = addLog(l, "ERROR: painting is null")
                /\ status' = "error"
                /\ errorMsg' = "painting is null"
                /\ inv' = [inv EXCEPT ![i] = [me EXCEPT !.pos = "failed"]]
           ELSE /\ logs' = addLog(l, "Requesting ephemeral token...")
                /\ status' = "connecting"
                /\ inv' = [inv EXCEPT ![i] = [me EXCEPT !.pos = "awaitToken",
                                                     !.tokenReq = TRUE]]
                /\ UNCHANGED errorMsg
  /\ UNCHANGED <<painting, pcRef, dcRef, resolver, pcs, dcs, stops, nDrops, store, pending, reply, byButtons, logged, limit, route, mounted, nav>>

\* (variant: the connection is created and no handler is assigned to it)
NewPcNoHandlers == [NoPc EXCEPT !.st = "open"]

\* new RTCPeerConnection(), and the three handlers assigned to it in the
\* same synchronous stretch
NewPc ==
  [NoPc EXCEPT !.st = "open",
               !.handlers = {"iceconnectionstatechange", "connectionstatechange",
                             "track"}]

\* (variant: the peer connection is created before the credential is examined)
TokenResultPcFirst(i, outcome) ==
  /\ inv[i].pos = "awaitToken"
  /\ pcs' = [pcs EXCEPT ![i] = NewPc]
  /\ pcRef' = i
  /\ IF outcome = "ok"
     THEN /\ logs' = addLog(addLog(logs, "Ephemeral token received"),
                            "Requesting microphone access...")
          /\ inv' = [inv EXCEPT ![i].pos = "awaitMic", ![i].key = "ek"]
          /\ UNCHANGED <<status, errorMsg>>
     ELSE /\ Catch(i, logs, IF outcome = "unreachable" THEN "Failed to fetch"
                            ELSE "Failed to get ephemeral token")
  /\ UNCHANGED <<painting, dcRef, resolver, dcs, nStarts, stops, nDrops, store, pending, reply, byButtons, logged, limit, route, mounted, nav>>

\* (variant: the log entry of the received credential carries its value)
TokenResultLogsKey(i, outcome) ==
  /\ inv[i].pos = "awaitToken"
  /\ IF outcome = "ok"
     THEN /\ logs' = addLog(addLog(logs, "Ephemeral token received: " \o "ek"),
                            "Requesting microphone access...")
          /\ pcs' = [pcs EXCEPT ![i] = NewPc]
          /\ pcRef' = i
          /\ inv' = [inv EXCEPT ![i].pos = "awaitMic", ![i].key = "ek"]
          /\ UNCHANGED <<status, errorMsg>>
     ELSE /\ Catch(i, logs, IF outcome = "unreachable" THEN "Failed to fetch"
                            ELSE "Failed to get ephemeral token")
          /\ UNCHANGED <<pcs, pcRef>>
  /\ UNCHANGED <<painting, dcRef, resolver, dcs, nStarts, stops, nDrops, store, pending, reply, byButtons, logged, limit, route, mounted, nav>>

\* await fetch(/api/session) and tokenRes.json() settle
TokenResult(i, outcome) ==
  /\ inv[i].pos = "awaitToken"
  /\ IF outcome = "ok"
     THEN /\ logs' = addLog(addLog(logs, "Ephemeral token received"),
                            "Requesting microphone access...")
          /\ pcs' = [pcs EXCEPT ![i] = NewPc]
          /\ pcRef' = i
          /\ inv' = [inv EXCEPT ![i].pos = "awaitMic", ![i].key = "ek"]
          /\ UNCHANGED <<status, errorMsg>>
     ELSE /\ Catch(i, logs, IF outcome = "unreachable" THEN "Failed to fetch"
                            ELSE "Failed to get ephemeral token")
          /\ UNCHANGED <<pcs, pcRef>>
  /\ UNCHANGED <<painting, dcRef, resolver, dcs, nStarts, stops, nDrops, store, pending, reply, byButtons, logged, limit, route, mounted, nav>>

\* (variant: a denied microphone is logged and the negotiation goes on)
MicResultDenialContinues(i, granted) ==
  /\ inv[i].pos = "awaitMic"
  /\ LET l == addLog(logs, IF granted THEN "Microphone access granted"
                           ELSE "Permission denied")
         P == [pcs EXCEPT ![i].mic = granted]
     IN IF pcs[i].st = "closed"
        THEN /\ Catch(i, l, "InvalidStateError")
             /\ pcs' = P
             /\ UNCHANGED <<dcs, dcRef>>
        ELSE /\ pcs' = P
             /\ dcs' = [dcs EXCEPT ![i] = [NoDc EXCEPT !.st = "connecting"]]
             /\ dcRef' = i
             /\ logs' = addLog(l, "Creating SDP offer...")
             /\ inv' = [inv EXCEPT ![i].pos = "awaitOffer"]
             /\ UNCHANGED <<status, errorMsg>>
  /\ UNCHANGED <<painting, pcRef, resolver, nStarts, stops, nDrops, store, pending, reply, byButtons, logged, limit, route, mounted, nav>>

\* await navigator.mediaDevices.getUserMedia settles; then addTrack and
\* createDataChannel, which throw InvalidStateError on a closed connection
MicResult(i, granted) ==
  /\ inv[i].pos = "awaitMic"
  /\ IF ~granted
     THEN /\ Catch(i, logs, "Permission denied")
          /\ UNCHANGED <<pcs, dcs, dcRef>>
     ELSE LET l == addLog(logs, "Microphone access granted")
              P == [pcs EXCEPT ![i].mic = TRUE]
          IN IF pcs[i].st = "closed"
             THEN /\ Catch(i, l, "InvalidStateError")
                  /\ pcs' = P
                  /\ UNCHANGED <<dcs, dcRef>>
             ELSE /\ pcs' = P
                  /\ dcs' = [dcs EXCEPT ![i] = [NoDc EXCEPT !.st = "connecting"]]
                  /\ dcRef' = i
                  /\ logs' = addLog(l, "Creating SDP offer...")
                  /\ inv' = [inv EXCEPT ![i].pos = "awaitOffer"]
                  /\ UNCHANGED <<status, errorMsg>>
  /\ UNCHANGED <<painting, pcRef, resolver, nStarts, stops, nDrops, store, pending, reply, byButtons, logged, limit, route, mounted, nav>>

\* await pc.createOffer() and pc.setLocalDescription(offer) settle; both
\* reject on a closed connection.  Then the offer is posted.
OfferResult(i, ok) ==
  /\ inv[i].pos = "awaitOffer"
  /\ IF pcs[i].st = "closed"
     THEN Catch(i, logs, "InvalidStateError")
     ELSE IF ~ok
     THEN Catch(i, logs, "createOffer failed")
     ELSE /\ logs' = addLog(logs, "Sending offer to OpenAI...")
          /\ inv' = [inv EXCEPT ![i].pos = "awaitSdp", ![i].keyUses = @ + 1]
          /\ UNCHANGED <<status, errorMsg>>
  /\ UNCHANGED <<painting, pcRef, dcRef, resolver, pcs, dcs, nStarts, stops, nDrops, store, pending, reply, byButtons, logged, limit, route, mounted, nav>>

\* (variant: the response is used as the answer whatever its status)
SdpResultNoOkCheck(i, r) ==
  /\ inv[i].pos = "awaitSdp"
  /\ IF ~r.reached
     THEN Catch(i, logs, "Failed to fetch")
     ELSE /\ logs' = addLog(logs, "Received SDP answer from OpenAI")
          /\ inv' = [inv EXCEPT ![i].pos = "awaitSetRemote", ![i].sdp = r,
                                ![i].answer = r.body]
          /\ UNCHANGED <<status, errorMsg>>
  /\ UNCHANGED <<painting, pcRef, dcRef, resolver, pcs, dcs, nStarts, stops, nDrops, store, pending, reply, byButtons, logged, limit, route, mounted, nav>>

\* await fetch(realtime endpoint) settles with r.  A response that is not ok
\* has its body read and thrown with its status; the text of an ok response
\* becomes the answer handed to setRemoteDescription.
SdpResult(i, r) ==
  /\ inv[i].pos = "awaitSdp"
  /\ IF ~r.reached
     THEN Catch(i, logs, "Failed to fetch")
     ELSE IF ~r.ok
     THEN /\ logs' = addLog(logs, "ERROR: SDP exchange failed: " \o r.status
                                   \o " - " \o r.body)
          /\ status' = "error"
          /\ errorMsg' = "SDP exchange failed: " \o r.status \o " - " \o r.body
          /\ inv' = [inv EXCEPT ![i].pos = "failed", ![i].sdp = r]
     ELSE /\ logs' = addLog(logs, "Received SDP answer from OpenAI")
          /\ inv' = [inv EXCEPT ![i].pos = "awaitSetRemote", ![i].sdp = r,
                                ![i].answer = r.body]
          /\ UNCHANGED <<status, errorMsg>>
  /\ UNCHANGED <<painting, pcRef, dcRef, resolver, pcs, dcs, nStarts, stops, nDrops, store, pending, reply, byButtons, logged, limit, route, mounted, nav>>

\* (variant: status is set to 'connected' as soon as the answer is applied)
SetRemoteResultSetsConnected(i, ok) ==
  /\ inv[i].pos = "awaitSetRemote"
  /\ pcs[i].st = "open" => (ok <=> pcs[i].audio # "none")
  /\ IF pcs[i].st = "closed"
     THEN /\ Catch(i, logs, "InvalidStateError")
          /\ UNCHANGED pcs
     ELSE IF ~ok
     THEN /\ Catch(i, logs, "Failed to parse SessionDescription")
          /\ UNCHANGED pcs
     ELSE /\ logs' = addLog(logs, "WebRTC connection established!")
          /\ inv' = [inv EXCEPT ![i].pos = "done"]
          /\ pcs' = [pcs EXCEPT ![i].remote = TRUE, ![i].answer = inv[i].answer]
          /\ status' = "connected"
          /\ UNCHANGED errorMsg
  /\ UNCHANGED <<painting, pcRef, dcRef, resolver, dcs, nStarts, stops, nDrops, store, pending, reply, byButtons, logged, limit, route, mounted, nav>>

\* await pc.setRemoteDescription(answer) settles
SetRemoteResult(i, ok) ==
  /\ inv[i].pos = "awaitSetRemote"
  /\ pcs[i].st = "open" => (ok <=> pcs[i].audio # "none")
  /\ IF pcs[i].st = "closed"
     THEN /\ Catch(i, logs, "InvalidStateError")
          /\ UNCHANGED pcs
     ELSE IF ~ok
     THEN /\ Catch(i, logs, "Failed to parse SessionDescription")
          /\ UNCHANGED pcs
     ELSE /\ logs' = addLog(logs, "WebRTC connection established!")
          /\ inv' = [inv EXCEPT ![i].pos = "done"]
          /\ pcs' = [pcs EXCEPT ![i].remote = TRUE, ![i].answer = inv[i].answer]
          /\ UNCHANGED <<status, errorMsg>>
  /\ UNCHANGED <<painting, pcRef, dcRef, resolver, dcs, nStarts, stops, nDrops, store, pending, reply, byButtons, logged, limit, route, mounted, nav>>

\* ------------------------------------------------- the peer connection
\* the iceConnectionState changes the browser can report on an open
\* connection, and the connectionState that goes with each
IceNext(c) ==
  CASE c = "new" -> {"checking"}
    [] c = "checking" -> {"connected", "failed"}
    [] c = "connected" -> {"disconnected"}
    [] c = "disconnected" -> {"connected", "failed"}
    [] OTHER -> {}
ConnFor(ice) == IF ice = "checking" THEN "connecting" ELSE ice

\* pc.oniceconnectionstatechange: the ICE state moves first, the connection
\* state follows it
OnIceConnectionStateChange(p, c) ==
  /\ pcs[p].st = "open"
  /\ pcs[p].remote
  /\ "iceconnectionstatechange" \in pcs[p].handlers
  /\ pcs[p].conn = ConnFor(pcs[p].ice)
  /\ c \in IceNext(pcs[p].ice)
  /\ c \in {"disconnected", "failed"} => nDrops < MaxDrops
  /\ pcs' = [pcs EXCEPT ![p].ice = c]
  /\ logs' = addLog(logs, "ICE State: " \o c)
  /\ UNCHANGED <<status, errorMsg, painting, pcRef, dcRef, resolver, inv, dcs, nStarts, stops, nDrops, store, pending, reply, byButtons, logged, limit, route, mounted, nav>>

\* the connectionState changes the browser can report on an open connection
ConnNext(c) ==
  CASE c = "new" -> {"connecting"}
    [] c = "connecting" -> {"connected", "failed"}
    [] c = "connected" -> {"disconnected"}
    [] c = "disconnected" -> {"connected", "failed"}
    [] OTHER -> {}

\* pc.onconnectionstatechange
OnConnectionStateChange(p, c) ==
  /\ pcs[p].st = "open"
  /\ pcs[p].remote
  /\ "connectionstatechange" \in pcs[p].handlers
  /\ c \in ConnNext(pcs[p].conn)
  /\ c = ConnFor(pcs[p].ice)
  /\ c \in {"disconnected", "failed"} => nDrops < MaxDrops
  /\ nDrops' = IF c \in {"disconnected", "failed"} THEN nDrops + 1 ELSE nDrops
  /\ pcs' = [pcs EXCEPT ![p].conn = c]
  /\ logs' = addLog(logs, "Connection State: " \o c)
  /\ status' = IF c = "connected" THEN "connected" ELSE status
  /\ UNCHANGED <<errorMsg, painting, pcRef, dcRef, resolver, inv, dcs, nStarts, stops, store, pending, reply, byButtons, logged, limit, route, mounted, nav>>

\* <audio ref={audioRef}> is part of the main render only: audioRef.current
\* is null while the component shows the loading or the error text, and
\* once it is unmounted
AudioEl == mounted /\ status \notin {"loading", "error"}

\* pc.ontrack: applying an accepted answer fires the track event for the
\* remote audio track before the promise of setRemoteDescription resolves.
\* With an audio element the stream becomes its srcObject and play() is
\* called; a rejection of play() (autoplay policy) is only logged.
OnTrack(p, plays) ==
  /\ pcs[p].st = "open"
  /\ inv[p].pos = "awaitSetRemote"
  /\ "track" \in pcs[p].handlers
  /\ pcs[p].audio = "none"
  /\ LET l == addLog(logs, "Received remote audio track")
     IN IF ~AudioEl
        THEN /\ pcs' = [pcs EXCEPT ![p].audio = "unbound"]
             /\ logs' = l
        ELSE IF plays
        THEN /\ pcs' = [pcs EXCEPT ![p].audio = "playing"]
             /\ logs' = l
        ELSE /\ pcs' = [pcs EXCEPT ![p].audio = "blocked"]
             /\ logs' = addLog(l, "Audio play error: NotAllowedError")
  /\ UNCHANGED <<status, errorMsg, painting, pcRef, dcRef, resolver, inv, dcs, nStarts, stops, nDrops, store, pending, reply, byButtons, logged, limit, route, mounted, nav>>

\* -------------------------------------------------- the data channel
SessionUpdate(p) == [type |-> "session.update", instructions |-> p.systemInstructions]
ImageItem(format) == [type |-> "conversation.item.create", format |-> format]
ResponseCreate == [type |-> "response.create"]

\* (variant: the open handler goes straight to the image, no session.update)
DcOnOpenNoUpdate(d) ==
  /\ dcs[d].st = "connecting"
  /\ pcs[d].st = "open"
  /\ pcs[d].conn = "connected"
  /\ LET p == inv[d].painting
         opened == [dcs[d] EXCEPT !.st = "open"]
         l == addLog(logs, "Data channel opened")
     IN IF p.imageUrl # ""
        THEN /\ dcs' = [dcs EXCEPT ![d] = [opened EXCEPT !.handler = "awaitImage"]]
             /\ logs' = addLog(l, "Fetching painting image...")
        ELSE /\ dcs' = [dcs EXCEPT ![d] = [opened EXCEPT !.handler = "done"]]
             /\ logs' = l
  /\ UNCHANGED <<status, errorMsg, painting, pcRef, dcRef, resolver, inv, pcs,
                 nStarts, stops, nDrops, store, pending, reply, byButtons, logged, limit, route, mounted, nav>>

\* dc.onopen up to its first suspension: the channel of connection d opens
\* once the transport is connected
DcOnOpen(d) ==
  /\ dcs[d].st = "connecting"
  /\ pcs[d].st = "open"
  /\ pcs[d].conn = "connected"
  /\ LET p == inv[d].painting
         opened == [dcs[d] EXCEPT !.st = "open"]
         l == addLog(addLog(logs, "Data channel opened"),
                     "Sending session instructions...")
     IN IF p.imageUrl # ""
        THEN /\ dcs' = [dcs EXCEPT ![d] =
                          [DcSend(opened, SessionUpdate(p)) EXCEPT !.handler = "awaitImage"]]
             /\ logs' = addLog(l, "Fetching painting image...")
        ELSE /\ dcs' = [dcs EXCEPT ![d] =
                          [DcSend(opened, SessionUpdate(p)) EXCEPT !.handler = "done"]]
             /\ logs' = l
  /\ UNCHANGED <<status, errorMsg, painting, pcRef, dcRef, resolver, inv, pcs,
                 nStarts, stops, nDrops, store, pending, reply, byButtons, logged, limit, route, mounted, nav>>

\* (variant: response.create is requested before the image item is sent)
ImageResultResponseFirst(d, outcome) ==
  /\ dcs[d].handler = "awaitImage"
  /\ dcs' = [dcs EXCEPT ![d] =
              [DcSend(DcSend(dcs[d], ResponseCreate), ImageItem(outcome))
                 EXCEPT !.handler = "done", !.image = outcome]]
  /\ logs' = addLog(logs, "Image sent to model")
  /\ UNCHANGED <<status, errorMsg, painting, pcRef, dcRef, resolver, inv, pcs,
                 nStarts, stops, nDrops, store, pending, reply, byButtons, logged, limit, route, mounted, nav>>

\* the image branch of dc.onopen after fetch, blob() and the FileReader
\* promise: a fetch failure reaches the catch; a read failure leaves the
\* promise pending for ever (onloadend throws on a null result, nothing
\* rejects); a loaded image is sent, followed by response.create
ImageResult(d, outcome) ==
  /\ dcs[d].handler = "awaitImage"
  /\ CASE outcome = "fetchfail" ->
            /\ logs' = addLog(logs, "Image error: Failed to fetch")
            /\ dcs' = [dcs EXCEPT ![d].handler = "done", ![d].image = outcome]
       [] outcome = "readfail" ->
            /\ dcs' = [dcs EXCEPT ![d].handler = "hung", ![d].image = outcome]
            /\ UNCHANGED logs
       [] OTHER ->
            LET l == addLog(logs, "Image loaded (" \o outcome \o ")")
            IN IF DcSendOk(dcs[d])
               THEN /\ dcs' = [dcs EXCEPT ![d] =
                                [DcSend(DcSend(dcs[d], ImageItem(outcome)), ResponseCreate)
                                   EXCEPT !.handler = "done", !.image = outcome]]
                    /\ logs' = addLog(addLog(l, "Image sent to model"),
                                      "Requested initial response")
               ELSE /\ dcs' = [dcs EXCEPT ![d] =
                                [DcSend(dcs[d], ImageItem(outcome))
                                   EXCEPT !.handler = "done", !.image = outcome]]
                    /\ logs' = addLog(l, "Image error: InvalidStateError")
  /\ UNCHANGED <<status, errorMsg, painting, pcRef, dcRef, resolver, inv, pcs,
                 nStarts, stops, nDrops, store, pending, reply, byButtons, logged, limit, route, mounted, nav>>

\* dc.onclose: the far end closes the channel, or the transport under it
\* is lost, while the connection object is still open
DcOnClose(d) ==
  /\ dcs[d].st = "open"
  /\ pcs[d].st = "open"
  /\ pcs[d].conn \in {"disconnected", "failed"}
  /\ dcs' = [dcs EXCEPT ![d].st = "closed"]
  /\ logs' = addLog(logs, "Data channel closed")
  /\ UNCHANGED <<status, errorMsg, painting, pcRef, dcRef, resolver, inv, pcs,
                 nStarts, stops, nDrops, store, pending, reply, byButtons, logged, limit, route, mounted, nav>>

\* `${msg.type}`: the segments joined again (an array of one string prints
\* as that string)
RECURSIVE Join(_)
Join(segs) ==
  IF segs = <<>> THEN ""
  ELSE IF Len(segs) = 1 THEN segs[1]
  ELSE segs[1] \o "." \o Join(Tail(segs))

\* String.prototype.includes: needle occurs in segs as a run of segments
IsInfix(needle, segs) ==
  \E k \in 0..(Len(segs) - Len(needle)) : SubSeq(segs, k + 1, k + Len(needle)) = needle

\* msg.type.includes(needle) throws when msg.type is undefined or has no
\* includes method (a number); an array has one, which looks for an element
\* equal to the needle
IncludesThrows(m) == m.tag \notin {"string", "array"}
TypeIncludes(m, needle) ==
  IF m.tag = "string" THEN IsInfix(needle, m.segs) ELSE m.segs = needle

\* messages delivered so far, on all the channels
RECURSIVE NReceived(_)
NReceived(n) == IF n = 0 THEN 0 ELSE dcs[n].received + NReceived(n - 1)

\* (variant: only the audio deltas are skipped)
DcOnMessageSkipsAudioOnly(d, m) ==
  /\ dcs[d].st = "open"
  /\ NReceived(MaxStarts) < MaxMsgs
  /\ dcs' = [dcs EXCEPT ![d].received = @ + 1]
  /\ logs' = IF ~m.json \/ IncludesThrows(m) THEN logs
             ELSE IF ~TypeIncludes(m, <<"audio", "delta">>)
             THEN addLog(logs, "Event: " \o Join(m.segs))
             ELSE logs
  /\ UNCHANGED <<status, errorMsg, painting, pcRef, dcRef, resolver, inv, pcs,
                 nStarts, stops, nDrops, store, pending, reply, byButtons, logged, limit, route, mounted, nav>>

\* dc.onmessage: JSON.parse and the test of msg.type run inside try, and the
\* catch block is empty
DcOnMessage(d, m) ==
  /\ dcs[d].st = "open"
  /\ NReceived(MaxStarts) < MaxMsgs
  /\ dcs' = [dcs EXCEPT ![d].received = @ + 1]
  /\ logs' = IF ~m.json \/ IncludesThrows(m) THEN logs
             ELSE IF ~TypeIncludes(m, <<"audio", "delta">>)
                     /\ ~TypeIncludes(m, <<"audio_transcript", "delta">>)
             THEN addLog(logs, "Event: " \o Join(m.segs))
             ELSE logs
  /\ UNCHANGED <<status, errorMsg, painting, pcRef, dcRef, resolver, inv, pcs,
                 nStarts, stops, nDrops, store, pending, reply, byButtons, logged, limit, route, mounted, nav>>

\* the invocations of startConversation that are suspended at an await
Awaits == {"awaitToken", "awaitMic", "awaitOffer", "awaitSdp", "awaitSetRemote"}
Suspended == {i \in Invs : inv[i].pos \in Awaits}

\* -------------------------------------------------- stopConversation
\* (variant: the connection is closed but pcRef.current keeps pointing at it)
StopConversationKeepsRef ==
  /\ mounted
  /\ Len(stops) < limit.stops
  /\ byButtons => StopButton
  /\ stops' = Append(stops, [status |-> status, pc |-> pcRef, dc |-> dcRef,
                              pending |-> Suspended])
  /\ pcs' = IF pcRef # 0 THEN ClosePc(pcs, pcRef) ELSE pcs
  /\ dcs' = LET D == IF pcRef # 0 THEN CloseDc(dcs, pcRef) ELSE dcs
            IN IF dcRef # 0 THEN CloseDc(D, dcRef) ELSE D
  /\ dcRef' = 0
  /\ status' = "ready"
  /\ logs' = addLog(logs, "Connection closed")
  /\ UNCHANGED <<errorMsg, painting, resolver, inv, nStarts, nDrops, store, pending, reply, byButtons, logged, limit, route, mounted, nav, pcRef>>

StopConversation ==
  /\ mounted
  /\ Len(stops) < limit.stops
  /\ byButtons => StopButton
  /\ stops' = Append(stops, [status |-> status, pc |-> pcRef, dc |-> dcRef,
                              pending |-> Suspended])
  /\ pcs' = IF pcRef # 0 THEN ClosePc(pcs, pcRef) ELSE pcs
  /\ dcs' = LET D == IF pcRef # 0 THEN CloseDc(dcs, pcRef) ELSE dcs
            IN IF dcRef # 0 THEN CloseDc(D, dcRef) ELSE D
  /\ pcRef' = 0
  /\ dcRef' = 0
  /\ status' = "ready"
  /\ logs' = addLog(logs, "Connection closed")
  /\ UNCHANGED <<errorMsg, painting, resolver, inv, nStarts, nDrops, store, pending, reply, byButtons, logged, limit, route, mounted, nav>>

\* ------------------------------------------------------------ the server
\* (server/index.js, the revision whose /api/session reads the query)
\*
\* A text the server takes apart or puts together is a sequence of pieces:
\* a slug is a sequence of characters (<<>> is no slug, null), a query
\* string and an instruction text are sequences too.
Titles == {"Mona Lisa", "Starry Night"}
Slugs == {<<"a">>, <<"a", "&", "b">>}
FactsTexts == {"", "painted in 1503"}
Files == {"f1.png", "f2.png"}

\* uuidv4(): the n-th call returns an id no earlier call returned
Uuids == <<"p1", "p2", "p3", "p4", "p5">>

NoReply == [op |-> "", code |-> 0, error |-> "", id |-> "", instructions |-> <<>>]

\* the systemInstructions template of POST and PUT /api/paintings
Instructions(title, facts, description) ==
  <<"You are an expert art historian analyzing the painting '",
    IF title = "" THEN "undefined" ELSE title,
    "'. Here are the key facts about this artwork:",
    IF facts = "" THEN "No specific facts provided." ELSE facts,
    "Description: ", description,
    "The user is looking at this painting right now. ...">>

\* the instructions /api/session builds for a painting it found
SessionInstructions(p) ==
  <<"You are an expert art historian analyzing the painting '",
    IF p.title = "" THEN "undefined" ELSE p.title,
    "'. Here are the key facts about this artwork:",
    IF p.facts = "" THEN "No specific facts provided." ELSE p.facts,
    "Description: ", p.description,
    "The user is looking at this painting right now and the image has been provided to you. ...">>
DefaultInstructions == <<"You are a helpful assistant.">>

\* const queryParam = slug ? `slug=${slug}` : `id=${id}`, put after /talk?
VisitorUrl(slug, id) ==
  <<"/talk?">> \o (IF slug # <<>> THEN <<"slug", "=">> \o slug ELSE <<"id", "=", id>>)

\* paintings.some(p => p.slug === slug)
SlugTaken(S, slug) == \E k \in 1..Len(S) : S[k].slug = slug

\* (variant: the painting is pushed and written before the slug is checked)
PostWritesBeforeCheck(file, title, slug, facts) ==
  /\ IF file = "" \/ title = ""
     THEN /\ reply' = [NoReply EXCEPT !.op = "post", !.code = 400,
                                      !.error = "Image and Title are required"]
          /\ UNCHANGED store
     ELSE /\ Len(store) < MaxPaintings
          /\ LET id == Uuids[Len(store) + 1]
             IN /\ store' = Append(store,
                      [id |-> id, slug |-> slug, title |-> title,
                       description |-> "", facts |-> facts,
                       imageUrl |-> "/uploads/" \o file,
                       systemInstructions |-> Instructions(title, facts, ""),
                       visitorUrl |-> VisitorUrl(slug, id),
                       createdAt |-> Len(store) + 1])
                /\ reply' = IF slug # <<>> /\ SlugTaken(store, slug)
                            THEN [NoReply EXCEPT !.op = "post", !.code = 400,
                                                 !.error = "Slug already exists"]
                            ELSE [NoReply EXCEPT !.op = "post", !.code = 200, !.id = id]
  /\ UNCHANGED pending
  /\ UNCHANGED cvars

\* POST /api/paintings.  file and title are "" when the request has none,
\* slug is <<>> when the form sent none.  The only await (the QR code)
\* precedes readData, so the check, the push and the write are one step.
Post(file, title, slug, facts) ==
  /\ IF file = "" \/ title = ""
     THEN /\ reply' = [NoReply EXCEPT !.op = "post", !.code = 400,
                                      !.error = "Image and Title are required"]
          /\ UNCHANGED store
     ELSE IF slug # <<>> /\ SlugTaken(store, slug)
     THEN /\ reply' = [NoReply EXCEPT !.op = "post", !.code = 400,
                                      !.error = "Slug already exists"]
          /\ UNCHANGED store
     ELSE /\ Len(store) < MaxPaintings
          /\ LET id == Uuids[Len(store) + 1]
             IN /\ store' = Append(store,
                      [id |-> id, slug |-> slug, title |-> title,
                       description |-> "", facts |-> facts,
                       imageUrl |-> "/uploads/" \o file,
                       systemInstructions |-> Instructions(title, facts, ""),
                       visitorUrl |-> VisitorUrl(slug, id),
                       createdAt |-> Len(store) + 1])
                /\ reply' = [NoReply EXCEPT !.op = "post", !.code = 200, !.id = id]
  /\ UNCHANGED pending
  /\ UNCHANGED cvars

\* paintings.findIndex(p => p.id === id): 0 when there is none
FindIndex(S, id) ==
  IF \E k \in 1..Len(S) : S[k].id = id
  THEN CHOOSE k \in 1..Len(S) : S[k].id = id /\ \A j \in 1..(k - 1) : S[j].id # id
  ELSE 0

\* (variant: the update leaves the stored instruction text as it was)
PutBeginKeepsInstructions(id, file, title, slug, facts) ==
  /\ Len(pending) < MaxPending
  /\ LET index == FindIndex(store, id)
     IN IF index = 0
        THEN /\ reply' = [NoReply EXCEPT !.op = "put", !.code = 404,
                                         !.error = "Painting not found"]
             /\ UNCHANGED pending
        ELSE LET existingPainting == store[index]
                 newSlug == IF slug # <<>> THEN slug ELSE existingPainting.slug
                 updated ==
                   [existingPainting EXCEPT
                      !.title = title,
                      !.slug = newSlug,
                      !.facts = facts,
                      !.imageUrl = IF file # "" THEN "/uploads/" \o file ELSE @,
                      !.visitorUrl = VisitorUrl(newSlug, existingPainting.id)]
             IN /\ pending' = Append(pending,
                                     [paintings |-> [store EXCEPT ![index] = updated],
                                      index |-> index])
                /\ UNCHANGED reply
  /\ UNCHANGED store
  /\ UNCHANGED cvars

\* PUT /api/paintings/:id up to `await QRCode.toDataURL`: the array is read
\* and the entry rebuilt in the request's own copy.  No stored instruction
\* text holds a 'VISUAL ANALYSIS' part, so none is carried over.
PutBegin(id, file, title, slug, facts) ==
  /\ Len(pending) < MaxPending
  /\ LET index == FindIndex(store, id)
     IN IF index = 0
        THEN /\ reply' = [NoReply EXCEPT !.op = "put", !.code = 404,
                                         !.error = "Painting not found"]
             /\ UNCHANGED pending
        ELSE LET existingPainting == store[index]
                 newSlug == IF slug # <<>> THEN slug ELSE existingPainting.slug
                 updated ==
                   [existingPainting EXCEPT
                      !.title = title,
                      !.slug = newSlug,
                      !.facts = facts,
                      !.imageUrl = IF file # "" THEN "/uploads/" \o file ELSE @,
                      !.systemInstructions = Instructions(title, facts, ""),
                      !.visitorUrl = VisitorUrl(newSlug, existingPainting.id)]
             IN /\ pending' = Append(pending,
                                     [paintings |-> [store EXCEPT ![index] = updated],
                                      index |-> index])
                /\ UNCHANGED reply
  /\ UNCHANGED store
  /\ UNCHANGED cvars

\* PUT /api/paintings/:id after the await: writeData(paintings) writes the
\* request's copy of the array, res.json(paintings[index])
PutEnd(n) ==
  /\ n \in 1..Len(pending)
  /\ store' = pending[n].paintings
  /\ reply' = [NoReply EXCEPT !.op = "put", !.code = 200,
                              !.id = pending[n].paintings[pending[n].index].id]
  /\ pending' = SubSeq(pending, 1, n - 1) \o SubSeq(pending, n + 1, Len(pending))
  /\ UNCHANGED cvars

\* const queryParam = painting.slug ? `slug=${painting.slug}`
\*                                   : `paintingId=${painting.id}`
QueryParam(p) ==
  IF p.slug # <<>> THEN <<"slug", "=">> \o p.slug ELSE <<"paintingId", "=", p.id>>

\* req.query of a query string that starts with key=: the value of the
\* first parameter ends at the first '&'
Until(q, k) ==
  IF \E j \in k..Len(q) : q[j] = "&"
  THEN (CHOOSE j \in k..Len(q) : q[j] = "&" /\ \A h \in k..(j - 1) : q[h] # "&") - 1
  ELSE Len(q)
ParseQuery(q) == [key |-> q[1], value |-> SubSeq(q, 3, Until(q, 3))]

\* paintings.find(p => (paintingId && p.id === paintingId)
\*                     || (slug && p.slug === slug)): 0 when there is none
FindForSession(S, query) ==
  LET Match(p) == \/ query.key = "paintingId" /\ query.value = <<p.id>>
                  \/ query.key = "slug" /\ query.value # <<>> /\ p.slug = query.value
  IN IF \E k \in 1..Len(S) : Match(S[k])
     THEN CHOOSE k \in 1..Len(S) : Match(S[k]) /\ \A j \in 1..(k - 1) : ~Match(S[j])
     ELSE 0

\* GET /api/session, requested by startConversation for the painting the
\* page holds (the k-th stored one); issued is whether the session could be
\* created
GetSession(k, issued) ==
  /\ k \in 1..Len(store)
  /\ LET found == FindForSession(store, ParseQuery(QueryParam(store[k])))
     IN reply' =
          IF issued
          THEN [NoReply EXCEPT !.op = "session", !.code = 200, !.id = store[k].id,
                  !.instructions = IF found = 0 THEN DefaultInstructions
                                   ELSE SessionInstructions(store[found])]
          ELSE [NoReply EXCEPT !.op = "session", !.code = 500, !.id = store[k].id,
                  !.error = "Failed to create OpenAI session"]
  /\ UNCHANGED <<store, pending>>
  /\ UNCHANGED cvars

ServerInit == store = <<>> /\ pending = <<>> /\ reply = NoReply

\* the create requests: every complete one, and one for each way of lacking
\* the image or the title
PostRequests ==
  [file : Files, title : Titles, slug : Slugs \cup {<<>>}, facts : FactsTexts]
  \cup {[file |-> "", title |-> "Mona Lisa", slug |-> <<"a">>, facts |-> ""],
        [file |-> "f1.png", title |-> "", slug |-> <<"a">>, facts |-> ""],
        [file |-> "", title |-> "", slug |-> <<>>, facts |-> ""]}

NextServer ==
  \/ \E r \in PostRequests : Post(r.file, r.title, r.slug, r.facts)
  \/ \E id \in {Uuids[n] : n \in 1..(MaxPaintings + 1)}, file \in Files \cup {""}, title \in Titles,
        slug \in Slugs \cup {<<>>}, facts \in FactsTexts :
        PutBegin(id, file, title, slug, facts)
  \/ \E n \in 1..MaxPending : PutEnd(n)
  \/ \E k \in 1..MaxPaintings, issued \in BOOLEAN : GetSession(k, issued)

Next ==
  \/ UseEffect
  \/ \E p \in Paintings : FetchPaintingOk(p)
  \/ \E msg \in ResolveFailures : FetchPaintingFail(msg)
  \/ StartConversation
  \/ \E i \in Invs, o \in TokenOutcomes : TokenResult(i, o)
  \/ \E i \in Invs, g \in BOOLEAN : MicResult(i, g)
  \/ \E i \in Invs, ok \in BOOLEAN : OfferResult(i, ok)
  \/ \E i \in Invs, o \in SdpOutcomes : SdpResult(i, o)
  \/ \E i \in Invs, ok \in BOOLEAN : SetRemoteResult(i, ok)
  \/ \E p \in Invs, c \in {"checking", "connected", "disconnected", "failed"} :
        OnIceConnectionStateChange(p, c)
  \/ \E p \in Invs, c \in {"connecting", "connected", "disconnected", "failed"} :
        OnConnectionStateChange(p, c)
  \/ \E p \in Invs, plays \in BOOLEAN : OnTrack(p, plays)
  \/ \E d \in Invs : DcOnOpen(d)
  \/ \E d \in Invs, o \in ImageOutcomes : ImageResult(d, o)
  \/ \E d \in Invs, m \in Messages : DcOnMessage(d, m)
  \/ \E d \in Invs : DcOnClose(d)
  \/ StopConversation
  \/ Unmount

\* the component as rendered: the visitor presses the buttons it shows
Init == Mounted /\ ServerInit /\ byButtons = TRUE /\ logged = TRUE /\ limit = [starts |-> MaxSessions, stops |-> MaxStops]
Spec == Init /\ [][Next]_vars

\* the component as rendered, without the contents of logs
InitButtons == Mounted /\ ServerInit /\ byButtons = TRUE /\ logged = FALSE /\ limit = [starts |-> MaxSessions, stops |-> MaxStops]
SpecButtons == InitButtons /\ [][Next]_vars

\* the two commands called directly, in any state and at any point of the
\* pending continuations
InitDirect == Mounted /\ ServerInit /\ byButtons = FALSE /\ logged = FALSE /\ limit = [starts |-> MaxSessions, stops |-> MaxStops]
SpecDirect == InitDirect /\ [][Next]_vars

\* the same, with invocations of startConversation that overlap, for the
\* component given a slug in the URL
InitConcurrent == Mounted /\ ServerInit /\ byButtons = FALSE /\ logged = FALSE /\ limit = [starts |-> MaxStarts, stops |-> MaxOverlapStops] /\ route = "slug"
SpecConcurrent == InitConcurrent /\ [][Next]_vars

\* the server alone, under any sequence of requests; the page is left as
\* constructed
InitServer ==
  /\ Mounted /\ route = "none"
  /\ byButtons = TRUE /\ logged = FALSE
  /\ limit = [starts |-> MaxSessions, stops |-> MaxStops]
  /\ ServerInit
SpecServer == InitServer /\ [][NextServer]_vars

\* the page reached by an id in the URL, which may change while the
\* component stays mounted (a navigation to the page of another painting)
PaintingIds == {p.id : p \in Paintings}
NextRoute ==
  \/ Next
  \/ \E a \in PaintingIds, b \in PaintingIds : ChangeIdentifier(a, b)
  \/ \E k \in 1..MaxChanges : EarlierFetchOk(k)
  \/ \E k \in 1..MaxChanges, msg \in ResolveFailures : EarlierFetchFail(k, msg)
InitRoute ==
  /\ Mounted /\ route = "id" /\ ServerInit
  /\ byButtons = TRUE /\ logged = FALSE
  /\ limit = [starts |-> MaxSessions, stops |-> MaxStops]
SpecRoute == InitRoute /\ [][NextRoute]_vars

\* the component as rendered, with every external response and every
\* browser event that is due eventually delivered: each pending promise
\* settles, and an open connection keeps reporting while it has a state
\* change to report.  What the visitor does is left free.
Fairness ==
  /\ WF_vars(\E p \in Paintings : FetchPaintingOk(p))
  /\ WF_vars(\E i \in Invs, o \in TokenOutcomes : TokenResult(i, o))
  /\ WF_vars(\E i \in Invs, g \in BOOLEAN : MicResult(i, g))
  /\ WF_vars(\E i \in Invs, ok \in BOOLEAN : OfferResult(i, ok))
  /\ WF_vars(\E i \in Invs, o \in SdpOutcomes : SdpResult(i, o))
  /\ WF_vars(\E i \in Invs, ok \in BOOLEAN : SetRemoteResult(i, ok))
  /\ WF_vars(\E p \in Invs, c \in {"checking", "connected", "disconnected", "failed"} :
                OnIceConnectionStateChange(p, c))
  /\ WF_vars(\E p \in Invs, c \in {"connecting", "connected", "disconnected", "failed"} :
                OnConnectionStateChange(p, c))
  /\ WF_vars(\E p \in Invs, plays \in BOOLEAN : OnTrack(p, plays))
  /\ WF_vars(\E d \in Invs : DcOnOpen(d))
  /\ WF_vars(\E d \in Invs, o \in ImageOutcomes : ImageResult(d, o))
SpecFair == Init /\ [][Next]_vars /\ Fairness

\* ------------------------------------------------------------ the claims
OpenPcs == {p \in Invs : pcs[p].st = "open"}
OpenDcs == {d \in Invs : dcs[d].st \in {"connecting", "open"}}
Types(d) == [k \in 1..Len(dcs[d].sent) |-> dcs[d].sent[k].type]
Sent(d, t) == \E k \in 1..Len(dcs[d].sent) : dcs[d].sent[k].type = t

\* C1: an invocation of startConversation made while status is 'connecting'
\* or 'connected' requests no credential and creates no peer connection and
\* no data channel.
C1_StartIgnoredUnlessReady ==
  \A i \in Invs :
     inv[i].statusAtCall \in {"connecting", "connected"} =>
        ~inv[i].tokenReq /\ pcs[i].st = "none" /\ dcs[i].st = "none"

\* C2: in every reachable state at most one peer connection is open, and an
\* open peer connection is the one pcRef references.
C2_AtMostOneOpenPc ==
  /\ Cardinality(OpenPcs) <= 1
  /\ \A p \in OpenPcs : pcRef = p

\* C3: whatever the status it is called in, stopConversation closes the peer
\* connection and the data channel the refs held, leaves pcRef and dcRef null
\* and status 'ready'.
C3_StopReleasesHandle ==
  [][Len(stops') = Len(stops) + 1 =>
       /\ pcRef # 0 => pcs'[pcRef].st = "closed" /\ dcs'[pcRef].st \notin {"connecting", "open"}
       /\ dcRef # 0 => dcs'[dcRef].st = "closed"
       /\ pcRef' = 0
       /\ dcRef' = 0
       /\ status' = "ready"]_vars

\* C3 (witness): stopConversation was called while status was 'connecting',
\* with a peer connection and a data channel in the refs, and both are closed.
C3_Witness ==
  \E k \in 1..Len(stops) :
     /\ stops[k].status = "connecting"
     /\ stops[k].pc # 0 /\ pcs[stops[k].pc].st = "closed"
     /\ stops[k].dc # 0 /\ dcs[stops[k].dc].st = "closed"
     /\ pcRef = 0 /\ dcRef = 0

\* C4: stopConversation is idempotent and leaves zero open transports and
\* zero open data channels: a call leaves nothing open, and a call made when
\* nothing is held and status is 'ready' (as after a first call) changes
\* neither the status nor the handles.
C4_StopIdempotentNoLeak ==
  [][Len(stops') = Len(stops) + 1 =>
       /\ OpenPcs' = {} /\ OpenDcs' = {}
       /\ (pcRef = 0 /\ dcRef = 0 /\ status = "ready") =>
             UNCHANGED <<status, errorMsg, painting, pcRef, dcRef, pcs, dcs>>]_vars

\* C5: no control event is sent on a data channel that is not open: every
\* dc.send is made while the channel's readyState is 'open'.
C5_SendOnlyWhileOpen ==
  \A d \in Invs : dcs[d].rejected = <<>>

\* C6: on every data channel a response.create is sent only after a
\* session.update has been sent on that channel.
C6_ResponseAfterSessionUpdate ==
  \A d \in Invs : \A k \in 1..Len(dcs[d].sent) :
     Types(d)[k] = "response.create" =>
        \E j \in 1..(k - 1) : Types(d)[j] = "session.update"

\* C6 (witness): a channel on which response.create has been sent.
C6_Witness ==
  \E d \in Invs : dcs[d].st = "open" /\ Sent(d, "response.create")

\* C7: in the events sent on a channel no conversation.item.create precedes
\* the session.update, and no response.create precedes a conversation item.
C7_ItemOrdering ==
  \A d \in Invs : \A k \in 1..Len(dcs[d].sent) :
     Types(d)[k] = "conversation.item.create" =>
        /\ \E j \in 1..(k - 1) : Types(d)[j] = "session.update"
        /\ \A j \in 1..(k - 1) : Types(d)[j] # "response.create"

\* C7 (witness): a channel that carried the image item of a PNG painting.
C7_Witness ==
  \E d \in Invs : dcs[d].image = "png" /\ Sent(d, "conversation.item.create")

\* C8: once the open handler has run to its end on a channel that is still
\* open, response.create has been sent on it, also when the painting has no
\* imageUrl.
C8_ResponseAlwaysRequested ==
  \A d \in Invs :
     dcs[d].st = "open" /\ dcs[d].handler = "done" => Sent(d, "response.create")

\* C9: when the image fetch fails inside the open handler, response.create
\* is still sent on that channel.
C9_ResponseAfterImageFailure ==
  \A d \in Invs :
     dcs[d].st = "open" /\ dcs[d].image = "fetchfail" => Sent(d, "response.create")

\* C10: a failure of the image fetch or of the base64 encoding leaves status
\* and errorMsg as they were, sends no conversation item, and appends the
\* failure to the trace log.
C10_ImageFailureLoggedOnly ==
  [][\A d \in Invs :
        dcs[d].image = "" /\ dcs'[d].image \in {"fetchfail", "readfail"} =>
           /\ status' = status
           /\ errorMsg' = errorMsg
           /\ dcs'[d].sent = dcs[d].sent
           /\ Len(logs') = Len(logs) + 1
           /\ logs'[Len(logs')] \in {"Image error: Failed to fetch",
                                     "Image error: read failed"}]_vars

C12_AbandonedAttemptLeavesNothing ==
  \A k \in 1..Len(stops) : \A i \in stops[k].pending :
     /\ pcs[i].st # "open"
     /\ dcs[i].st \notin {"connecting", "open"}
     /\ inv[i].pos # "failed"

\* C13: when status is 'connected' and a peer connection of the mounted
\* component reports
\* connectionState 'disconnected', 'failed' or 'closed', the same step puts
\* status back to 'ready'.
C13_DisconnectReturnsToReady ==
  [][\A p \in Invs :
        /\ status = "connected" /\ mounted'
        /\ pcs'[p].conn # pcs[p].conn
        /\ pcs'[p].conn \in {"disconnected", "failed", "closed"}
        => status' = "ready"]_vars

\* C14: the step in which the credential request fails takes status from
\* 'connecting' to 'error' with nothing in between, and that attempt has
\* created no peer connection or data channel and has posted no SDP offer.
C14_CredentialFailureStopsAttempt ==
  [][\A i \in Invs :
        inv[i].pos = "awaitToken" /\ inv'[i].pos = "failed" =>
           /\ status = "connecting" /\ status' = "error"
           /\ pcs'[i].st = "none" /\ dcs'[i].st = "none"
           /\ inv'[i].keyUses = 0 /\ inv'[i].key = ""]_vars

\* C14 (witness): an attempt has failed at the credential request.
C14_Witness ==
  \E i \in Invs :
     /\ inv[i].pos = "failed" /\ inv[i].tokenReq /\ inv[i].key = ""
     /\ status = "error"
     /\ errorMsg \in {"Failed to fetch", "Failed to get ephemeral token"}

\* C15: when the realtime endpoint answers the offer with a response that is
\* not ok, that step sets status 'error' with a message made of the status
\* and the body, and nothing is handed to setRemoteDescription; when it is
\* ok, the body is the answer handed to setRemoteDescription, and the remote
\* description of the connection is that text once the call resolves.
C15_SdpRejectionAndAnswer ==
  [][\A i \in Invs :
        /\ inv[i].pos = "awaitSdp" /\ inv'[i].pos # "awaitSdp" /\ inv'[i].sdp.reached =>
             IF inv'[i].sdp.ok
             THEN inv'[i].pos = "awaitSetRemote" /\ inv'[i].answer = inv'[i].sdp.body
             ELSE /\ inv'[i].pos = "failed" /\ inv'[i].answer = ""
                  /\ status' = "error"
                  /\ errorMsg' = "SDP exchange failed: " \o inv'[i].sdp.status
                                    \o " - " \o inv'[i].sdp.body
        /\ pcs'[i].remote /\ ~pcs[i].remote =>
             inv[i].sdp.ok /\ pcs'[i].answer = inv[i].sdp.body]_vars

\* C15 (witness): one attempt was rejected by the endpoint with status 401.
C15_Witness ==
  \E i \in Invs :
     /\ inv[i].pos = "failed" /\ inv[i].sdp.reached /\ inv[i].sdp.status = "401"
     /\ status = "error"

\* C16: whenever status is 'error', no peer connection and no data channel
\* is open, and pcRef and dcRef reference no open handle.
C16_ErrorLeavesNoOpenHandle ==
  status = "error" =>
     /\ OpenPcs = {} /\ OpenDcs = {}
     /\ pcRef # 0 => pcs[pcRef].st # "open"
     /\ dcRef # 0 => dcs[dcRef].st \notin {"connecting", "open"}

\* C17: when the component is unmounted no peer connection stays open,
\* whichever way the painting was given (slugOverride included).
C17_UnmountClosesConnection ==
  [][mounted /\ ~mounted' => OpenPcs' = {}]_vars

\* C18: while the component is mounted, status 'connecting' always leads to
\* status 'connected', 'error' or 'ready'.
C18_ConnectingEventuallyLeaves ==
  (mounted /\ status = "connecting") ~>
     (status \in {"connected", "error", "ready"} \/ ~mounted)

\* the messages of the failures startConversation can meet at each of its
\* positions
FailureMessages(pos) ==
  CASE pos = "none" -> {"painting is null"}
    [] pos = "awaitToken" -> {"Failed to fetch", "Failed to get ephemeral token"}
    [] pos = "awaitMic" -> {"Permission denied", "InvalidStateError"}
    [] pos = "awaitOffer" -> {"createOffer failed", "InvalidStateError"}
    [] pos = "awaitSdp" ->
         {"Failed to fetch"} \cup
         {"SDP exchange failed: " \o r.status \o " - " \o r.body : r \in SdpResponses}
    [] pos = "awaitSetRemote" -> {"Failed to parse SessionDescription", "InvalidStateError"}
    [] OTHER -> {}

\* C19: every step that leaves status at 'error' leaves errorMsg non-empty,
\* and a step in which a failure occurs (an invocation of startConversation
\* enters its catch block, the painting fetch fails, or the mount effect
\* finds no identifier) sets errorMsg to the message of that failure.
C19_ErrorCarriesItsMessage ==
  [][status' = "error" =>
        /\ errorMsg' # ""
        /\ \A i \in Invs :
              inv[i].pos # "failed" /\ inv'[i].pos = "failed" =>
                 errorMsg' \in FailureMessages(inv[i].pos)
        /\ resolver = "pending" /\ resolver' = "done" =>
              errorMsg' \in ResolveFailures
        /\ resolver = "init" /\ resolver' = "done" =>
              errorMsg' = "No painting ID or Slug found in URL."]_vars

\* C19 (witness): status is 'error' for the second time in the run: the
\* painting fetch failed, and then an invocation of startConversation failed
\* and replaced the message.
C19_Witness ==
  /\ status = "error" /\ painting = NoPainting /\ route \in {"override", "id", "slug"}
  /\ \E i \in Invs : inv[i].pos = "failed" /\ errorMsg \in FailureMessages("none")

\* C20: when an inbound data-channel message is not JSON, or is JSON whose
\* type is not a string, the step that handles it adds nothing to the log
\* and leaves status as it was.
C20_MalformedMessageDropped ==
  [][\A d \in Invs :
     \A m \in Messages :
        /\ ~m.json \/ m.tag # "string"
        /\ DcOnMessage(d, m)
        => logs' = logs /\ status' = status]_vars

\* C27: on every path through startConversation the connection-state, the
\* ICE-state and the inbound-track handlers are registered on the peer
\* connection before createOffer is called, so that no state change of the
\* transport after negotiation has started goes unobserved.
PcHandlers == {"iceconnectionstatechange", "connectionstatechange", "track"}
C27_HandlersBeforeOffer ==
  \A i \in Invs :
     /\ inv[i].pos \in {"awaitOffer", "awaitSdp", "awaitSetRemote", "done"} =>
           pcs[i].handlers = PcHandlers
     /\ pcs[i].st # "none" /\ (pcs[i].ice # "new" \/ pcs[i].conn # "new"
                                \/ pcs[i].audio # "none") =>
           pcs[i].handlers = PcHandlers
C27_Witness ==
  \E i \in Invs :
     /\ inv[i].pos = "done"
     /\ pcs[i].handlers = PcHandlers
     /\ pcs[i].ice = "connected" /\ pcs[i].conn = "connected"
     /\ status = "connected"

\* C28: an inbound track is bound to the audio element when it arrives, and
\* a failure to start playback only appends a trace-log entry: status and
\* errorMsg are unchanged and the peer connection stays open.
C28_TrackBoundPlaybackNonFatal ==
  [][\A p \in Invs :
        pcs[p].audio = "none" /\ pcs'[p].audio # "none" =>
           /\ pcs'[p].audio \in {"playing", "blocked"}
           /\ pcs'[p].audio = "blocked" =>
                 /\ status' = status /\ errorMsg' = errorMsg
                 /\ pcs'[p].st = "open"
                 /\ logs' = Append(Append(logs, "Received remote audio track"),
                                   "Audio play error: NotAllowedError")]_vars

\* the part of C28 that holds in every run: where there is an audio element
\* the track is bound to it, and a playback failure changes nothing but the
\* log
C28_WithAudioElement ==
  [][\A p \in Invs :
        pcs[p].audio = "none" /\ pcs'[p].audio # "none" =>
           /\ AudioEl => pcs'[p].audio \in {"playing", "blocked"}
           /\ pcs'[p].audio = "blocked" =>
                 /\ status' = status /\ errorMsg' = errorMsg
                 /\ pcs'[p].st = "open"
                 /\ logs' = Append(Append(logs, "Received remote audio track"),
                                   "Audio play error: NotAllowedError")]_vars

\* the text the addLog calls put in front of a value they interpolate
LogTemplates ==
  {"", "Ephemeral token received: ", "ERROR: ", "ERROR: SDP exchange failed: ",
   "ICE State: ", "Connection State: ", "Audio play error: ", "Image error: ",
   "Event: ", "Data channel error: "}
Exposes(entry, key) == \E t \in LogTemplates : entry = t \o key

\* C21: the value of the ephemeral credential appears in no trace-log entry,
\* and a fetched credential is the bearer token of at most one SDP request.
C21_CredentialNotLoggedUsedOnce ==
  \A i \in Invs :
     /\ inv[i].key # "" =>
           \A k \in 1..Len(logs) : ~Exposes(logs[k], inv[i].key)
     /\ inv[i].keyUses <= 1
     /\ inv[i].keyUses = 1 => inv[i].key # ""
C21_Witness ==
  \E i \in Invs :
     /\ inv[i].key # "" /\ inv[i].keyUses = 1
     /\ inv[i].pos = "done"
     /\ \E k \in 1..Len(logs) : logs[k] = "Ephemeral token received"
     /\ \E k \in 1..Len(logs) : logs[k] = "Sending offer to OpenAI..."

\* C22: startConversation passes the identifier of the painting it holds
\* (the slug when there is one, the id otherwise) under a query parameter
\* the broker reads, so that for every stored painting the instructions of
\* the issued session are built from that painting, never the default ones.
C22_SessionBuiltFromPainting ==
  [][\A k \in 1..MaxPaintings :
        GetSession(k, TRUE) =>
           /\ reply'.instructions = SessionInstructions(store[k])
           /\ reply'.instructions # DefaultInstructions]_vars

\* text s occurs in the instruction text
Contains(text, s) == s = "" \/ \E k \in 1..Len(text) : text[k] = s

C24_FailureSetsErrorMicFirst ==
  [][\A i \in Invs :
        /\ inv[i].pos \in Awaits /\ inv'[i].pos = "failed" =>
              /\ status' = "error"
              /\ errorMsg' \in FailureMessages(inv[i].pos)
        /\ (\E o \in TokenOutcomes \ {"ok"} : TokenResult(i, o)) => inv'[i].pos = "failed"
        /\ MicResult(i, FALSE) =>
              /\ inv'[i].pos = "failed" /\ errorMsg' = "Permission denied"
        /\ OfferResult(i, FALSE) => inv'[i].pos = "failed"
        /\ (\E r \in SdpOutcomes : ~r.ok /\ SdpResult(i, r)) => inv'[i].pos = "failed"
        /\ SetRemoteResult(i, FALSE) => inv'[i].pos = "failed"
        /\ inv'[i].pos = "failed" /\ pcs'[i].st # "none" /\ ~pcs'[i].mic =>
              /\ inv'[i].keyUses = 0 /\ inv'[i].sdp = NoResponse
              /\ dcs'[i].st = "none"
              /\ pcs'[i].conn \in {"new", "closed"} /\ ~pcs'[i].remote]_vars
C24_Witness ==
  \E i \in Invs :
     /\ inv[i].pos = "failed" /\ inv[i].key # "" /\ ~pcs[i].mic
     /\ status = "error" /\ errorMsg = "Permission denied"
     /\ inv[i].keyUses = 0 /\ dcs[i].st = "none"

\* C25: once status is 'error' it stays 'error' as long as the component is
\* mounted: no later event (a late result of the painting fetch, a
\* connection-state change of a peer connection of an earlier or a
\* concurrent attempt, a stop) moves it out of 'error'.
C25_ErrorIsFinal ==
  [][status = "error" /\ mounted /\ mounted' => status' = "error"]_vars

\* C26: whenever a peer connection is closed (by stopConversation, by a
\* fatal error or by the unmount), the microphone tracks acquired for its
\* session are stopped in the same step: no microphone track is live once
\* its transport is closed.  (pcs[p].mic: the track getUserMedia returned
\* for p is live.)
C26_MicStoppedWithTransport ==
  [][\A p \in Invs :
        pcs[p].st = "open" /\ pcs'[p].st = "closed" => ~pcs'[p].mic]_vars

\* the types of the streaming deltas: audio and transcript
DeltaTypes == {"response.audio.delta", "response.audio_transcript.delta"}

\* C29: a well-formed inbound event (JSON with a string type) appends exactly
\* one trace-log entry, naming its type, if and only if it is not a streaming
\* delta (audio delta or transcript delta); a delta event appends nothing.
C29_OneEntryUnlessDelta ==
  [][\A d \in Invs :
     \A m \in Messages :
        m.json /\ m.tag = "string" /\ DcOnMessage(d, m) =>
           IF Join(m.segs) \in DeltaTypes
           THEN logs' = logs
           ELSE logs' = Append(logs, "Event: " \o Join(m.segs))]_vars
C29_Witness ==
  /\ \E d \in Invs : dcs[d].received > 0
  /\ \E k \in 1..Len(logs) : logs[k] = "Event: session.created"

\* C30: the trace log is append-only: every step that logs adds its entries
\* at the end and leaves the earlier entries as they were and in order, a
\* single addLog adds exactly one entry, and no step removes or clears
\* entries.
C30_LogAppendOnly ==
  [][/\ Len(logs') >= Len(logs)
     /\ SubSeq(logs', 1, Len(logs)) = logs
     /\ \A p \in Invs, c \in {"checking", "connected", "disconnected", "failed"} :
           OnIceConnectionStateChange(p, c) => logs' = Append(logs, "ICE State: " \o c)
     /\ \A d \in Invs : DcOnClose(d) => logs' = Append(logs, "Data channel closed")
     /\ StopConversation => logs' = Append(logs, "Connection closed")]_vars
C30_Witness ==
  /\ Len(logs) >= 8
  /\ logs[1] = "Starting WebRTC connection..."
  /\ logs[2] = "Requesting ephemeral token..."
  /\ logs[Len(logs)] = "Connection closed"
  /\ status = "ready" /\ Len(stops) = 1

\* C36: after any sequence of create and update requests no two stored
\* paintings have the same non-null slug.
C36_SlugsUnique ==
  \A j, k \in 1..Len(store) :
     j # k /\ store[j].slug # <<>> => store[j].slug # store[k].slug

\* C37: a create request that is rejected (no image, no title, or a slug
\* that exists already) is answered 400 and leaves the stored list exactly
\* as it was; an accepted one appends exactly one painting and changes no
\* existing one.
C37_CreateRejectedOrAppended ==
  [][reply'.op = "post" /\ (reply' # reply \/ store' # store) =>
        \/ /\ reply'.code = 400
           /\ reply'.error \in {"Image and Title are required", "Slug already exists"}
           /\ store' = store
           /\ reply'.error = "Slug already exists" =>
                 \E k \in 1..Len(store) : store[k].slug # <<>>
        \/ /\ reply'.code = 200 /\ reply'.error = ""
           /\ Len(store') = Len(store) + 1
           /\ SubSeq(store', 1, Len(store)) = store
           /\ LET new == store'[Len(store')]
              IN /\ new.id = reply'.id
                 /\ \A k \in 1..Len(store) : store[k].id # new.id
                 /\ new.title # "" /\ new.imageUrl \in {"/uploads/" \o f : f \in Files}
                 /\ new.slug # <<>> => ~SlugTaken(store, new.slug)]_vars
C37_Witness ==
  /\ Len(store) = 2
  /\ store[1].slug = <<"a">> /\ store[2].slug # <<"a">>
  /\ reply.op = "post" /\ reply.code = 400 /\ reply.error = "Slug already exists"

\* C38: an update request for an unknown id is answered 404 and changes
\* nothing; an update for a known id changes only that painting, keeps its
\* id and createdAt, keeps its slug and its image when the request supplies
\* none, and leaves every other stored painting unchanged.
C38_UpdateTouchesOnePainting ==
  [][/\ \A id \in {Uuids[n] : n \in 1..(MaxPaintings + 1)}, file \in Files \cup {""},
           title \in Titles, slug \in Slugs \cup {<<>>}, facts \in FactsTexts :
           PutBegin(id, file, title, slug, facts) =>
              /\ store' = store
              /\ FindIndex(store, id) = 0 => reply'.code = 404 /\ pending' = pending
              /\ FindIndex(store, id) # 0 =>
                    LET k == FindIndex(store, id)
                        new == pending'[Len(pending')].paintings[k]
                    IN /\ new.id = id /\ new.createdAt = store[k].createdAt
                       /\ slug = <<>> => new.slug = store[k].slug
                       /\ file = "" => new.imageUrl = store[k].imageUrl
     /\ \A n \in 1..MaxPending :
           PutEnd(n) =>
              /\ reply'.code = 200
              /\ Len(store') = Len(store)
              /\ \A k \in 1..Len(store) :
                    /\ store'[k].id = store[k].id
                    /\ store'[k].createdAt = store[k].createdAt
                    /\ k # pending[n].index => store'[k] = store[k]]_vars

\* C31: every change of the lifecycle status (loading to ready, loading to
\* error, ready to connecting, connecting to connected, to error, back to
\* ready) and every control event sent on the data channel comes with a
\* trace-log entry appended in the same step.
C31_ChangesAreLogged ==
  [][/\ status' # status => Len(logs') > Len(logs)
     /\ \A d \in Invs :
           Len(dcs'[d].sent) > Len(dcs[d].sent) => Len(logs') > Len(logs)]_vars

\* C34: in every reachable state where status is 'ready', 'connecting' or
\* 'connected' the painting is resolved (not null), whatever the sequence of
\* mount, resolution results, startConversation and stopConversation, a
\* stopConversation made while status is 'loading' included.
C34_PaintingResolvedWhenUsable ==
  status \in {"ready", "connecting", "connected"} => painting # NoPainting

\* C32: the resolution made on mount ends in 'ready', with the painting set,
\* only when the resolver answers with a success response; it ends in
\* 'error' with a message when neither an id nor a slug is given, when the
\* painting is not found and when the request fails; and with neither an id
\* nor a slug no resolver request is made at all.
C32_ResolutionOutcomes ==
  [][/\ resolver = "init" /\ resolver' # "init" =>
           IF route = "none"
           THEN /\ resolver' = "done"
                /\ status' = "error"
                /\ errorMsg' = "No painting ID or Slug found in URL."
                /\ painting' = NoPainting
           ELSE resolver' = "pending" /\ status' = "loading"
     /\ route = "none" => resolver' # "pending"
     /\ resolver = "pending" /\ resolver' = "done" =>
           \/ /\ status' = "ready"
              /\ painting' \in Paintings
              /\ errorMsg' = ""
           \/ /\ status' = "error"
              /\ errorMsg' \in ResolveFailures
              /\ painting' = NoPainting
     /\ status = "loading" /\ status' = "ready" =>
           resolver = "pending" /\ painting' \in Paintings
     /\ \A msg \in ResolveFailures :
           FetchPaintingFail(msg) => status' = "error" /\ errorMsg' = msg]_vars
C32_Witness ==
  /\ route = "id" /\ resolver = "done"
  /\ status = "error" /\ errorMsg = "Failed to fetch" /\ painting = NoPainting
  /\ nStarts = 0

\* C33: every new session resolves the artwork again: a startConversation
\* issued after an earlier session and a stopConversation starts a new
\* request for the painting record, so that the second session is built
\* from the record as it is then stored.
C33_NewSessionReResolves ==
  [][(/\ painting \in Paintings /\ inv[1].painting = painting
      /\ nStarts >= 1 /\ Len(stops) > 0 /\ stops[Len(stops)].pc # 0
      /\ nStarts' = nStarts + 1)
        => resolver' = "pending"]_vars

\* C35: when the painting identifier changes while an earlier resolution
\* request is still pending, a response to the earlier request that arrives
\* later overwrites neither the painting nor the status, and once every
\* request has been answered the painting held is the one the latest
\* identifier names.
C35_LatestIdentifierWins ==
  [][/\ \A k \in 1..Len(nav.earlier) :
          nav.earlier[k].st = "pending" /\ nav'.earlier[k].st = "done" =>
             painting' = painting /\ status' = status
     /\ (/\ nav'.target # "" /\ resolver' = "done" /\ status' = "ready"
         /\ \A k \in 1..Len(nav'.earlier) : nav'.earlier[k].st = "done")
          => painting'.id = nav'.target]_vars

====
